---------------------------- MODULE Spec2Model ----------------------------
(***************************************************************************)
(* Sushi v2 liquidity-pool tag service (src/src/main.mts).                 *)
(*                                                                         *)
(* returnTags validates the chain id and the API key, resolves the         *)
(* subgraph URL, pins the indexed block number, pages the pools with an    *)
(* id_gt cursor and transforms the accumulated pools to contract tags.     *)
(*                                                                         *)
(* JavaScript strings are modelled as sequences of one-character strings,  *)
(* so that trim, the decimal test, Number, String, replace, includes,      *)
(* encodeURIComponent, substring and concatenation are computed as the     *)
(* code computes them.                                                     *)
(***************************************************************************)
EXTENDS Integers, Sequences, FiniteSets, TLC

-----------------------------------------------------------------------------
(* Strings *)

\* White space removed by String.prototype.trim (the members the inputs use).
WhiteSpace == {" ", "\t"}

Digits == {"0", "1", "2", "3", "4", "5", "6", "7", "8", "9"}

DigitValue(c) ==
  CASE c = "0" -> 0 [] c = "1" -> 1 [] c = "2" -> 2 [] c = "3" -> 3 [] c = "4" -> 4
    [] c = "5" -> 5 [] c = "6" -> 6 [] c = "7" -> 7 [] c = "8" -> 8 [] c = "9" -> 9

DigitChar(d) ==
  CASE d = 0 -> "0" [] d = 1 -> "1" [] d = 2 -> "2" [] d = 3 -> "3" [] d = 4 -> "4"
    [] d = 5 -> "5" [] d = 6 -> "6" [] d = 7 -> "7" [] d = 8 -> "8" [] d = 9 -> "9"

\* text.substring(from, to) with 0 <= from <= to, JavaScript's 0-based half-open range.
Substring(text, from, to) ==
  LET hi == IF to > Len(text) THEN Len(text) ELSE to
  IN  IF from >= hi THEN << >> ELSE SubSeq(text, from + 1, hi)

\* s.trim()
Trim(s) ==
  LET keep == {k \in 1..Len(s) : s[k] \notin WhiteSpace}
  IN  IF keep = {} THEN << >>
      ELSE LET lo == CHOOSE k \in keep : \A m \in keep : k <= m
               hi == CHOOSE k \in keep : \A m \in keep : k >= m
           IN  SubSeq(s, lo, hi)

\* /^\d+$/.test(s)
IsDecimalString(s) == Len(s) >= 1 /\ \A k \in 1..Len(s) : s[k] \in Digits

HexDigits == Digits \cup {"a", "b", "c", "d", "e", "f"}

HexValue(c) ==
  CASE c \in Digits -> DigitValue(c)
    [] c = "a" -> 10 [] c = "b" -> 11 [] c = "c" -> 12
    [] c = "d" -> 13 [] c = "e" -> 14 [] c = "f" -> 15

\* The value of the digits s in the given base.
RECURSIVE ValueIn(_, _)
ValueIn(base, s) ==
  IF s = << >> THEN 0
  ELSE base * ValueIn(base, SubSeq(s, 1, Len(s) - 1)) + HexValue(s[Len(s)])

\* What Number gives a string that is no numeric literal.
NaN == 0 - 1

\* Number(s): a decimal string, a 0x literal and the empty string convert; NaN
\* stands for any other string.  (Signs, fractions and exponents also convert
\* in JavaScript; the decimal test rejects them before Number is reached.)
NumberOf(s) ==
  IF s = << >> THEN 0
  ELSE IF IsDecimalString(s) THEN ValueIn(10, s)
  ELSE IF Len(s) >= 3 /\ s[1] = "0" /\ s[2] = "x"
          /\ \A k \in 3..Len(s) : s[k] \in HexDigits
  THEN ValueIn(16, SubSeq(s, 3, Len(s)))
  ELSE NaN

\* String(n) for a non-negative integer.
RECURSIVE StringOf(_)
StringOf(n) ==
  IF n < 10 THEN <<DigitChar(n)>> ELSE StringOf(n \div 10) \o <<DigitChar(n % 10)>>

\* The least 1-based index at which sub occurs in s, 0 when it does not occur.
IndexOf(s, sub) ==
  LET at == {k \in 1..(Len(s) - Len(sub) + 1) : SubSeq(s, k, k + Len(sub) - 1) = sub}
  IN  IF at = {} THEN 0 ELSE CHOOSE k \in at : \A m \in at : k <= m

\* s.includes(sub)
Includes(s, sub) == IndexOf(s, sub) # 0

\* s.replace(pattern, replacement) with a string pattern: the first occurrence
\* only.  The replacement is the output of encodeURIComponent, which holds no
\* "$", so no replacement pattern is interpreted.
Replace(s, pattern, replacement) ==
  LET k == IndexOf(s, pattern)
  IN  IF k = 0 THEN s
      ELSE SubSeq(s, 1, k - 1) \o replacement \o SubSeq(s, k + Len(pattern), Len(s))

\* Characters encodeURIComponent escapes, with their escapes.
PercentEscape(c) ==
  CASE c = " "  -> <<"%", "2", "0">>
    [] c = "\t" -> <<"%", "0", "9">>
    [] c = "/"  -> <<"%", "2", "F">>
    [] c = "["  -> <<"%", "5", "B">>
    [] c = "]"  -> <<"%", "5", "D">>
    [] c = "$"  -> <<"%", "2", "4">>
    [] OTHER    -> <<c>>

RECURSIVE EncodeURIComponent(_)
EncodeURIComponent(s) ==
  IF s = << >> THEN << >> ELSE PercentEscape(Head(s)) \o EncodeURIComponent(Tail(s))

-----------------------------------------------------------------------------
(* Configuration *)

GATEWAY ==
  <<"h","t","t","p","s",":","/","/","g","a","t","e","w","a","y",".","t","h","e","g","r","a","p",
  "h",".","c","o","m","/","a","p","i","/","[","a","p","i","-","k","e","y","]","/","d","e","p",
  "l","o","y","m","e","n","t","s","/","i","d","/">>

DEPLOYMENT_56 ==
  <<"Q","m","P","i","9","Q","J","j","a","P","f","o","T","E","w","f","N","M","i","u","q","o","Z",
  "m","T","c","1","R","G","F","i","3","D","e","Z","y","4","U","E","R","D","D","q","S","J","n">>

DEPLOYMENT_137 ==
  <<"Q","m","c","3","g","b","K","A","d","1","e","e","m","Q","b","a","T","v","Y","9","3","S","2",
  "F","p","u","P","E","i","p","G","a","V","K","C","Q","9","7","p","B","k","X","g","t","y","N">>

DEPLOYMENT_250 ==
  <<"Q","m","Z","3","Z","s","5","7","B","t","9","n","j","P","j","i","3","T","y","6","A","9","7",
  "6","1","h","w","Q","a","H","Y","Y","G","M","C","j","s","5","f","7","o","i","i","d","x","z">>

DEPLOYMENT_1285 ==
  <<"Q","m","Z","w","2","k","X","L","8","t","t","6","F","o","N","e","o","4","q","L","S","N","3",
  "r","b","e","9","t","k","W","t","G","x","D","t","B","V","3","i","W","J","M","E","k","f","7">>

\* The keys of SUBGRAPH_URLS.
ConfiguredChains == {<<"5", "6">>, <<"1", "3", "7">>, <<"2", "5", "0">>, <<"1", "2", "8", "5">>}

\* SUBGRAPH_URLS[chainKey]
SUBGRAPH_URLS(chainKey) ==
  CASE chainKey = <<"5", "6">>           -> GATEWAY \o DEPLOYMENT_56
    [] chainKey = <<"1", "3", "7">>      -> GATEWAY \o DEPLOYMENT_137
    [] chainKey = <<"2", "5", "0">>      -> GATEWAY \o DEPLOYMENT_250
    [] chainKey = <<"1", "2", "8", "5">> -> GATEWAY \o DEPLOYMENT_1285

API_KEY_SLOT == <<"[", "a", "p", "i", "-", "k", "e", "y", "]">>

PLACEHOLDER ==
  <<"P","L","A","C","E","H","O","L","D","E","R">>

\* const supportedChains
supportedChains == {56, 137, 250, 1285}

\* The first cursor: the all-zero address.
ZERO_ADDRESS ==
  <<"0","x","0","0","0","0","0","0","0","0","0","0","0","0","0","0","0","0","0","0","0","0","0",
  "0","0","0","0","0","0","0","0","0","0","0","0","0","0","0","0","0","0","0">>

-----------------------------------------------------------------------------
(* Transform to tags *)

\* const maxLen = 45
maxLen == 45

ELLIPSIS == <<".", ".", ".">>

truncateStringAtLimit(text, maxLength) ==
  IF Len(text) >= maxLength
  THEN Substring(text, 0, maxLength - 3) \o ELLIPSIS
  ELSE text

\* function truncateString(text, maxLength)
truncateString(text, maxLength) ==
  IF Len(text) > maxLength
  THEN Substring(text, 0, maxLength - 3) \o ELLIPSIS
  ELSE text

POOL_SUFFIX ==
  <<" ","P","o","o","l">>

EIP155 ==
  <<"e","i","p","1","5","5",":">>

NOTE_HEAD ==
  <<"S","u","s","h","i","'","s"," ">>

NOTE_TAIL ==
  <<")"," ","p","o","o","l"," ","c","o","n","t","r","a","c","t",".">>

PROJECT_NAME ==
  <<"S","u","s","h","i">>

WEBSITE ==
  <<"h","t","t","p","s",":","/","/","w","w","w",".","s","u","s","h","i",".","c","o","m","/">>

\* A LiquidityPool as the transformer and the pager read it: its id and its
\* outputToken, which is << >> when null and <<[id, symbol, name]>> otherwise.
NoToken == << >>

Token(id, symbol, name) == <<[id |-> id, symbol |-> symbol, name |-> name]>>

Pool(id, outputToken) == [id |-> id, outputToken |-> outputToken]

\* !lpToken?.id
TokenIdMissing(lpToken) == lpToken = NoToken \/ lpToken[1].id = << >>

hasNever(seen, id) == FALSE

\* seen.has(lpToken.id)
has(seen, id) == id \in seen

addNothing(seen, id) == seen

\* seen.add(lpToken.id)
add(seen, id) == seen \cup {id}

\* The tag pushed for an LP token with trimmed symbol lpSymbol and name lpName.
ContractTag(chainId, id, lpSymbol, lpName) ==
  [ContractAddress |-> EIP155 \o chainId \o <<":">> \o id,
   PublicNameTag   |-> truncateString(lpSymbol \o POOL_SUFFIX, maxLen),
   ProjectName     |-> PROJECT_NAME,
   Website         |-> WEBSITE,
   PublicNote      |-> NOTE_HEAD \o lpSymbol \o <<" ", "(">> \o lpName \o NOTE_TAIL]

\* The body of the loop over pools: st holds the tags pushed and the ids seen.
TransformPool(chainId, st, pool) ==
  LET lpToken == pool.outputToken
  IN  IF TokenIdMissing(lpToken) \/ has(st.seen, lpToken[1].id) THEN st
      ELSE LET seen     == add(st.seen, lpToken[1].id)
               lpSymbol == Trim(lpToken[1].symbol)
               lpName   == Trim(lpToken[1].name)
           IN  IF lpSymbol = << >> THEN [st EXCEPT !.seen = seen]
               ELSE [seen |-> seen,
                     tags |-> Append(st.tags,
                                     ContractTag(chainId, lpToken[1].id, lpSymbol, lpName))]

RECURSIVE TransformFrom(_, _, _, _)
TransformFrom(chainId, pools, k, st) ==
  IF k > Len(pools) THEN st.tags
  ELSE TransformFrom(chainId, pools, k + 1, TransformPool(chainId, st, pools[k]))

\* function transformPoolsToTags(chainId, pools)
transformPoolsToTags(chainId, pools) ==
  TransformFrom(chainId, pools, 1, [seen |-> {}, tags |-> << >>])

-----------------------------------------------------------------------------
(* Invocations of returnTags *)

\* Concurrent invocations the host may have in flight.
Procs == {1, 2}

\* An optional value: << >> when absent, <<v>> when present.
None == << >>

Some(v) == <<v>>

VARIABLES
  pc,           \* where each invocation stands: idle, an await, done or failed
  chainId,      \* the chainId argument, as passed
  apiKey,       \* the apiKey argument, as passed
  chainIdNum,   \* const chainIdNum
  subgraphUrl,  \* const subgraphUrl ("" until resolved)
  blockNumber,  \* const blockNumber (None until pinned)
  lastId,       \* let lastId
  prevLastId,   \* let prevLastId
  allPools,     \* const allPools
  timer,        \* whether the setTimeout of the call in flight is armed
  thrown,       \* the error the invocation was rejected with (None until then)
  returned,     \* the tags the invocation resolved with (None until then)
  console,      \* the lines written by console.error
  requests,     \* the requests issued, in order
  pages,        \* the pages fetchPools returned, in order
  metaBlock,    \* the block number the subgraph answered the _meta query with
  caller,       \* the invocation that took the last step
  inFlight,     \* the fetch calls issued whose response is not yet settled
  answers,      \* what each fetch and each response.json() settled with, in order
  indexed,      \* the pools the subgraph holds at the pinned block (honest runs)
  tChainId,     \* transformPoolsToTags alone: its chainId argument
  tPools,       \* transformPoolsToTags alone: its pools argument
  tTags         \* transformPoolsToTags alone: its result (None until it ran)

locals == <<chainIdNum, subgraphUrl, blockNumber, lastId, prevLastId, allPools>>

vars == <<pc, chainId, apiKey, chainIdNum, subgraphUrl, blockNumber, lastId, prevLastId,
          allPools, timer, thrown, returned, console, requests, pages, metaBlock, caller,
          inFlight, answers, indexed, tChainId, tPools, tTags>>

tvars == <<tChainId, tPools, tTags>>

SharedFrame(i) == 1

\* The bindings of one invocation (chainIdNum, subgraphUrl, blockNumber, lastId,
\* prevLastId, allPools) are declared inside returnTags: each invocation has its own.
Frame(i) == i

\* Error messages, by the throw statement that raises them.
UnsupportedChainId       == "Unsupported Chain ID"
MissingApiKey            == "Missing API key"
SubgraphUrlNotConfigured == "Subgraph URL not configured"
HttpErrorMeta            == "HTTP error (meta)"
MetaBlockUnreadable      == "Failed to read _meta.block.number from subgraph response"
TimedOutMeta             == "Request timed out while querying _meta for block number."
TimedOutPools            == "Request timed out while querying the pools subgraph."
HttpErrorPools           == "HTTP error (pools)"
GraphQLErrorPools        == "GraphQL error from pools subgraph."
CursorDidNotAdvance      == "Pagination cursor (pools) did not advance; aborting."
FetchRejected            == "fetch rejected"
BodyRejected             == "response.json() rejected"

\* Number.isInteger(chainIdNum), for the value Number gives a decimal string.
NumberIsInteger(n) == n # NaN

apiKeyEmpty(key) == Len(key) = 0

\* !apiKey || apiKey.trim().length === 0
apiKeyMissing(key) == Len(key) = 0 \/ Len(Trim(key)) = 0

chainFormatAny(trimmedChainId) == TRUE

\* /^\d+$/.test(trimmedChainId)
chainFormatOk(trimmedChainId) == IsDecimalString(trimmedChainId)

\* SUBGRAPH_URLS[chainKey]?.replace("[api-key]", encodeURIComponent(apiKey))
ResolveUrl(chainKey, key) ==
  IF chainKey \in ConfiguredChains
  THEN Replace(SUBGRAPH_URLS(chainKey), API_KEY_SLOT, EncodeURIComponent(key))
  ELSE << >>

\* returnTags up to its first await: the error it throws, if any, and the
\* bindings made by then.
Resolve(chain, key) ==
  LET trimmedChainId == Trim(chain)
      num            == NumberOf(trimmedChainId)
      url            == ResolveUrl(StringOf(num), key)
      bad(e)         == [error |-> Some(e), chainIdNum |-> 0, subgraphUrl |-> << >>]
  IN  IF ~chainFormatOk(trimmedChainId) THEN bad(UnsupportedChainId)
      ELSE IF ~NumberIsInteger(num) \/ num \notin supportedChains
      THEN [bad(UnsupportedChainId) EXCEPT !.chainIdNum = num]
      ELSE IF apiKeyMissing(key)
      THEN [bad(MissingApiKey) EXCEPT !.chainIdNum = num]
      ELSE IF url = << >> \/ Includes(url, PLACEHOLDER)
      THEN [error |-> Some(SubgraphUrlNotConfigured), chainIdNum |-> num, subgraphUrl |-> url]
      ELSE [error |-> None, chainIdNum |-> num, subgraphUrl |-> url]

\* The body of the _meta request.
MetaRequest == [query |-> "meta", lastId |-> << >>, block |-> None]

PoolsRequestStaleCursor(cursor, block) ==
  [query |-> "pools", lastId |-> ZERO_ADDRESS, block |-> Some(block)]

PoolsRequestUnpinned(cursor, block) == [query |-> "pools", lastId |-> cursor, block |-> None]

\* The body of a pools request: variables { lastId, block: blockNumber }.
PoolsRequest(cursor, block) == [query |-> "pools", lastId |-> cursor, block |-> Some(block)]

RejectWrapped(i, e) ==
  /\ pc' = [pc EXCEPT ![i] = "failed"]
  /\ thrown' = [thrown EXCEPT ![i] = Some("Failed to fetch pools")]
  /\ returned' = returned

RejectWithPartial(i, e) ==
  /\ pc' = [pc EXCEPT ![i] = "failed"]
  /\ thrown' = [thrown EXCEPT ![i] = Some(e)]
  /\ returned' = [returned EXCEPT ![i] =
                    Some(transformPoolsToTags(StringOf(chainIdNum[Frame(i)]),
                                              allPools[Frame(i)]))]

\* throw: the promise returnTags gave is rejected with e and resolves with nothing.
Reject(i, e) ==
  /\ pc' = [pc EXCEPT ![i] = "failed"]
  /\ thrown' = [thrown EXCEPT ![i] = Some(e)]
  /\ returned' = returned

-----------------------------------------------------------------------------
(* The subgraph, as the invocations see it *)

\* The page size the query asks for (first: 1000), scaled down.
PageSize == 2

\* Pages the subgraph answers with a body, per invocation.
MaxPages == 3

\* Ways a fetch settles: the timer fires and aborts it, it rejects for another
\* reason, or it resolves with a response whose ok is true or false.
FetchOutcomes == {"abort", "reject", "ok", "not ok"}

\* Bodies of a _meta response: the value at data._meta.block.number when it is a
\* number, None when it is absent or no number.
MetaBody(number) == [kind |-> "json", number |-> number]

\* Bodies of a pools response: errors and data are None when the field is absent.
PoolsBody(errors, data) == [kind |-> "json", errors |-> errors, data |-> data]

\* A body that is cut short or is no JSON: response.json() rejects.
BrokenBody == [kind |-> "reject"]

\* The read of the body is aborted by the timer.
AbortedBody == [kind |-> "abort"]

\* What a fetch (stage "fetch") or a response.json() (stage "json") of a "meta"
\* or "pools" call settled with; body is the parsed body, None without one.
Answer(call, stage, kind, body) ==
  [call |-> call, stage |-> stage, kind |-> kind, body |-> body]

\* The parsed body an answer carries.
Parsed(body) == IF body.kind = "json" THEN Some(body) ELSE None

-----------------------------------------------------------------------------
(* Steps of an invocation *)

\* typeof blockNumber === "number"
blockIsNumber(number) == number # None

hasErrorsOrNoData(body) == body.errors # None \/ body.data = None

\* if (result.errors)
hasErrors(body) == body.errors # None

LOG_PREFIX == "GraphQL error (pools): "

FirstErrorLine(errors) ==
  IF errors = None \/ errors[1] = << >> THEN << >> ELSE << <<LOG_PREFIX, errors[1][1]>> >>

\* The lines result.errors.forEach writes with console.error, one per error.
ErrorLines(errors) ==
  IF errors = None THEN << >>
  ELSE [k \in 1..Len(errors[1]) |-> <<LOG_PREFIX, errors[1][k]>>]

\* result.data?.liquidityPools ?? []
PageOf(body) == IF body.data = None THEN << >> ELSE body.data[1]

isMoreAboveLimit(page) == Len(page) > PageSize

isMoreWhileNonEmpty(page) == Len(page) > 0

\* isMore = page.length === 1000
isMore(page) == Len(page) = PageSize

stalledNever(nextLastId, cursor, prevCursor) == FALSE

stalledOnPreviousOnly(nextLastId, cursor, prevCursor) ==
  nextLastId = << >> \/ nextLastId = prevCursor

stalledOnCurrentOnly(nextLastId, cursor, prevCursor) ==
  nextLastId = << >> \/ nextLastId = cursor

\* !nextLastId || nextLastId === lastId || nextLastId === prevLastId
stalled(nextLastId, cursor, prevCursor) ==
  nextLastId = << >> \/ nextLastId = cursor \/ nextLastId = prevCursor

\* returnTags(chainId, apiKey), up to the fetch of fetchIndexedBlockNumber.
returnTags(i, chainIds, apiKeys) ==
  /\ pc[i] = "idle"
  /\ \E chain \in chainIds, key \in apiKeys :
       LET r == Resolve(chain, key)
       IN  /\ chainId' = [chainId EXCEPT ![i] = chain]
           /\ apiKey' = [apiKey EXCEPT ![i] = key]
           /\ chainIdNum' = [chainIdNum EXCEPT ![Frame(i)] = r.chainIdNum]
           /\ subgraphUrl' = [subgraphUrl EXCEPT ![Frame(i)] = r.subgraphUrl]
           /\ IF r.error # None
              THEN /\ Reject(i, r.error[1])
                   /\ UNCHANGED <<timer, requests, inFlight>>
              ELSE /\ pc' = [pc EXCEPT ![i] = "meta fetch"]
                   /\ timer' = [timer EXCEPT ![i] = TRUE]
                   /\ requests' = [requests EXCEPT ![i] = Append(@, MetaRequest)]
                   /\ inFlight' = [inFlight EXCEPT ![i] = @ + 1]
                   /\ UNCHANGED <<thrown, returned>>
  /\ caller' = i
  /\ UNCHANGED <<blockNumber, lastId, prevLastId, allPools, console, pages, metaBlock,
                 answers, indexed>>
  /\ UNCHANGED tvars

\* fetchIndexedBlockNumber: the fetch settles.
FetchMetaSettled(i) ==
  /\ pc[i] = "meta fetch"
  /\ \E outcome \in FetchOutcomes :
       /\ answers' = [answers EXCEPT ![i] = Append(@, Answer("meta", "fetch", outcome, None))]
       /\ IF outcome = "ok"
          THEN /\ pc' = [pc EXCEPT ![i] = "meta json"]
               /\ UNCHANGED <<timer, thrown, returned, inFlight>>
          ELSE /\ Reject(i, CASE outcome = "abort"  -> TimedOutMeta
                              [] outcome = "reject" -> FetchRejected
                              [] outcome = "not ok" -> HttpErrorMeta)
               /\ timer' = [timer EXCEPT ![i] = FALSE]
               /\ inFlight' = [inFlight EXCEPT ![i] = @ - 1]
  /\ caller' = i
  /\ UNCHANGED <<chainId, apiKey, console, requests, pages, metaBlock, indexed>>
  /\ UNCHANGED locals
  /\ UNCHANGED tvars

\* fetchIndexedBlockNumber: resp.json() settles; on a number, returnTags goes
\* on to its first fetchPools.
MetaJsonSettled(i, bodies) ==
  /\ pc[i] = "meta json"
  /\ \E body \in bodies \cup {AbortedBody, BrokenBody} :
       /\ answers' = [answers EXCEPT ![i] =
                        Append(@, Answer("meta", "json", body.kind, Parsed(body)))]
       /\ IF body.kind = "json" /\ blockIsNumber(body.number)
          THEN /\ metaBlock' = [metaBlock EXCEPT ![i] = body.number]
               /\ blockNumber' = [blockNumber EXCEPT ![Frame(i)] = body.number]
               /\ lastId' = [lastId EXCEPT ![Frame(i)] = ZERO_ADDRESS]
               /\ prevLastId' = [prevLastId EXCEPT ![Frame(i)] = << >>]
               /\ allPools' = [allPools EXCEPT ![Frame(i)] = << >>]
               /\ requests' = [requests EXCEPT ![i] =
                                 Append(@, PoolsRequest(ZERO_ADDRESS, body.number[1]))]
               /\ inFlight' = [inFlight EXCEPT ![i] = (@ - 1) + 1]
               /\ pc' = [pc EXCEPT ![i] = "pools fetch"]
               /\ UNCHANGED <<timer, thrown, returned>>
          ELSE /\ Reject(i, CASE body.kind = "abort"  -> TimedOutMeta
                              [] body.kind = "reject" -> BodyRejected
                              [] body.kind = "json"   -> MetaBlockUnreadable)
               /\ timer' = [timer EXCEPT ![i] = FALSE]
               /\ inFlight' = [inFlight EXCEPT ![i] = @ - 1]
               /\ UNCHANGED <<metaBlock, blockNumber, lastId, prevLastId, allPools, requests>>
  /\ caller' = i
  /\ UNCHANGED <<chainId, apiKey, chainIdNum, subgraphUrl, console, pages, indexed>>
  /\ UNCHANGED tvars

\* fetchPools: the fetch settles, the timer is cleared, response.ok is tested.
FetchPoolsSettled(i, maxPages) ==
  /\ pc[i] = "pools fetch"
  /\ \E outcome \in FetchOutcomes :
       /\ outcome = "ok" => Len(pages[i]) < maxPages
       /\ answers' = [answers EXCEPT ![i] = Append(@, Answer("pools", "fetch", outcome, None))]
       /\ IF outcome = "ok"
          THEN /\ pc' = [pc EXCEPT ![i] = "pools json"]
               /\ UNCHANGED <<thrown, returned, inFlight>>
          ELSE /\ Reject(i, CASE outcome = "abort"  -> TimedOutPools
                              [] outcome = "reject" -> FetchRejected
                              [] outcome = "not ok" -> HttpErrorPools)
               /\ inFlight' = [inFlight EXCEPT ![i] = @ - 1]
  /\ timer' = [timer EXCEPT ![i] = FALSE]
  /\ caller' = i
  /\ UNCHANGED <<chainId, apiKey, console, requests, pages, metaBlock, indexed>>
  /\ UNCHANGED locals
  /\ UNCHANGED tvars

\* fetchPools: response.json() settles; then the rest of the loop body of
\* returnTags, up to the next fetchPools or, after the last page, the return.
PoolsJsonSettled(i, bodies) ==
  /\ pc[i] = "pools json"
  /\ \E body \in bodies \cup {BrokenBody} :
       /\ answers' = [answers EXCEPT ![i] =
                        Append(@, Answer("pools", "json", body.kind, Parsed(body)))]
       /\ IF body.kind = "reject"
          THEN /\ Reject(i, BodyRejected)
               /\ inFlight' = [inFlight EXCEPT ![i] = @ - 1]
               /\ UNCHANGED <<lastId, prevLastId, allPools, timer, console, requests, pages>>
          ELSE IF hasErrors(body)
          THEN /\ console' = [console EXCEPT ![i] = @ \o ErrorLines(body.errors)]
               /\ Reject(i, GraphQLErrorPools)
               /\ inFlight' = [inFlight EXCEPT ![i] = @ - 1]
               /\ UNCHANGED <<lastId, prevLastId, allPools, timer, requests, pages>>
          ELSE LET page       == PageOf(body)
                   f          == Frame(i)
                   pools      == allPools[f] \o page
                   nextLastId == page[Len(page)].id
               IN  /\ pages' = [pages EXCEPT ![i] = Append(@, page)]
                   /\ allPools' = [allPools EXCEPT ![f] = pools]
                   /\ console' = console
                   /\ IF isMore(page)
                      THEN IF stalled(nextLastId, lastId[f], prevLastId[f])
                           THEN /\ Reject(i, CursorDidNotAdvance)
                                /\ inFlight' = [inFlight EXCEPT ![i] = @ - 1]
                                /\ UNCHANGED <<lastId, prevLastId, timer, requests>>
                           ELSE /\ prevLastId' = [prevLastId EXCEPT ![f] = lastId[f]]
                                /\ lastId' = [lastId EXCEPT ![f] = nextLastId]
                                /\ requests' = [requests EXCEPT ![i] =
                                     Append(@, PoolsRequest(nextLastId, blockNumber[f][1]))]
                                /\ inFlight' = [inFlight EXCEPT ![i] = (@ - 1) + 1]
                                /\ timer' = [timer EXCEPT ![i] = TRUE]
                                /\ pc' = [pc EXCEPT ![i] = "pools fetch"]
                                /\ UNCHANGED <<thrown, returned>>
                      ELSE /\ returned' = [returned EXCEPT ![i] =
                                 Some(transformPoolsToTags(StringOf(chainIdNum[f]), pools))]
                           /\ inFlight' = [inFlight EXCEPT ![i] = @ - 1]
                           /\ pc' = [pc EXCEPT ![i] = "done"]
                           /\ UNCHANGED <<lastId, prevLastId, timer, requests, thrown>>
  /\ caller' = i
  /\ UNCHANGED <<chainId, apiKey, chainIdNum, subgraphUrl, blockNumber, metaBlock, indexed>>
  /\ UNCHANGED tvars

\* transformPoolsToTags(chainId, pools), called on its own.
Transform ==
  /\ tTags = None
  /\ tTags' = Some(transformPoolsToTags(tChainId, tPools))
  /\ UNCHANGED <<pc, chainId, apiKey, timer, thrown, returned, console, requests, pages,
                 metaBlock, caller, inFlight, answers, indexed, tChainId, tPools>>
  /\ UNCHANGED locals

-----------------------------------------------------------------------------
(* Inputs and answers the specifications draw from *)

SeqsUpTo(S, n) == UNION {[1..m -> S] : m \in 0..n}

ID_A == <<"0","x","a","1">>
ID_B == <<"0","x","b","2">>
ID_C == <<"0","x","c","3">>
LP_1 == <<"0","x","e","1">>
LP_2 == <<"0","x","e","2">>
SLP == <<"S","L","P">>
WETH_USDC == <<" ","W","E","T","H","-","U","S","D","C"," ","L","P","\t">>
BLANK == <<" ","\t">>
SUSHI_LP == <<"S","u","s","h","i"," ","L","P"," ","T","o","k","e","n">>
PADDED_NAME == <<" ","S","u","s","h","i","S","w","a","p"," ","L","P"," ">>

\* Pool records of the paged runs, by the id that becomes the cursor: two ids
\* that advance, a third, the first cursor again, and an empty id.
Records ==
  {Pool(ID_A, Token(LP_1, SLP, SUSHI_LP)),
   Pool(ID_B, NoToken),
   Pool(ID_C, Token(LP_1, WETH_USDC, PADDED_NAME)),
   Pool(ZERO_ADDRESS, Token(LP_2, BLANK, << >>)),
   Pool(<< >>, Token(LP_2, SLP, << >>))}

\* The records that fill a full page before its last record.
Filler == <<Pool(ID_B, Token(LP_2, SLP, SUSHI_LP)), Pool(ID_A, NoToken)>>

FullPages(records) ==
  {[k \in 1..PageSize |->
      IF k = PageSize THEN last ELSE Filler[((k - 1) % Len(Filler)) + 1]] : last \in records}

\* Every page of fewer than PageSize records, and the full pages ending in each record.
Pages(records) == SeqsUpTo(records, PageSize - 1) \cup FullPages(records)

ErrorLists == {<< >>, <<"indexing_error", "bad block">>}

PoolsBodies(records) ==
  {PoolsBody(None, Some(page)) : page \in Pages(records)}
    \cup {PoolsBody(None, None)}
    \cup {PoolsBody(Some(errors), data) :
            errors \in ErrorLists, data \in {None, Some(<<Pool(ID_A, NoToken)>>)}}

MetaBodies == {MetaBody(None), MetaBody(Some(0)), MetaBody(Some(0 - 7)), MetaBody(Some(4211))}

\* chainId arguments of the paged runs.
ChainIds ==
  {<<"1","3","7">>,
   <<" ","5","6">>,
   <<"0","2","5","0">>,
   <<"9","9","9","9">>,
   <<"0","x","8","9">>,
   <<>>}

\* apiKey arguments of the paged runs.
ApiKeys ==
  {<<"k","e","y">>,
   <<" ","\t">>,
   <<>>}

\* Characters of the chainId arguments of the validation runs.
ChainChars == {"5", "6", "0", " ", "x"}

\* The longest chainId drawn from ChainChars.
MaxChainLen == 3

\* chainId arguments of the validation runs, besides those over ChainChars.
ListedChainIds ==
  {<<"5","6">>,
   <<"1","3","7">>,
   <<"2","5","0">>,
   <<"1","2","8","5">>,
   <<" ","1","3","7">>,
   <<"2","5","0","\t">>,
   <<" ","1","2","8","5"," ">>,
   <<"0","0","1","3","7">>,
   <<"0","0","5","6"," ">>,
   <<"1","3","7","0">>,
   <<"1","2","8","5","0">>,
   <<"-","1","3","7">>,
   <<"+","5","6">>,
   <<"5","6",".","0">>,
   <<"1","e","3">>,
   <<"0","x","3","8">>,
   <<"1","3"," ","7">>,
   <<"5","6","x">>,
   <<"1">>,
   <<"0","x","8","9">>}

ValidationChainIds == SeqsUpTo(ChainChars, MaxChainLen) \cup ListedChainIds

\* apiKey arguments of the validation runs.
ValidationApiKeys ==
  {<<>>,
   <<" ">>,
   <<" ","\t"," ">>,
   <<"k","e","y">>,
   <<" ","k","e","y"," ">>,
   <<"a","/","b"," ","c">>,
   <<"P","L","A","C","E","H","O","L","D","E","R">>,
   <<"m","y","P","L","A","C","E","H","O","L","D","E","R","k","e","y">>,
   <<"[","a","p","i","-","k","e","y","]">>,
   <<"$","&">>}

\* The one answer the subgraph gives the validation runs: an empty page.
EmptyPageOnly == {PoolsBody(None, Some(<< >>))}

\* The records of the concurrent runs.
FewRecords == {Pool(ID_A, Token(LP_1, SLP, SUSHI_LP)), Pool(ID_B, Token(LP_2, SLP, << >>))}

\* Pages the subgraph answers each of the concurrent invocations with a body.
MaxConcurrentPages == 2

\* chainId arguments of the concurrent runs.
FewChainIds ==
  {<<"5","6">>,
   <<"1","3","7">>,
   <<"1">>}

\* apiKey arguments of the concurrent runs.
FewApiKeys ==
  {<<"k","e","y">>}

FewMetaBodies == {MetaBody(Some(7)), MetaBody(Some(8))}

\* The longest pools argument of transformPoolsToTags called on its own.
MaxPools == 3

\* The longest output-token symbol of transformPoolsToTags called on its own.
MaxSymbolLen == 44

TokenIds == {LP_1, LP_2, << >>}

Symbols == {SLP, WETH_USDC, BLANK}

TokenRecords ==
  {Pool(ID_A, Token(id, symbol, SUSHI_LP)) : id \in TokenIds, symbol \in Symbols}
    \cup {Pool(ID_A, NoToken)}

\* A symbol of n characters, with a full stop at every fifth place.
LongSymbol(n) == [k \in 1..n |-> IF k % 5 = 0 THEN "." ELSE "S"]

LongSymbols ==
  {LongSymbol(n) : n \in 1..MaxSymbolLen}
    \cup {<<" ">> \o LongSymbol(n) \o <<"\t", " ">> : n \in 1..MaxSymbolLen}

PoolLists ==
  SeqsUpTo(TokenRecords, MaxPools)
    \cup {<<Pool(ID_A, Token(LP_1, symbol, PADDED_NAME))>> : symbol \in LongSymbols}

\* The records of a subgraph that answers full pages in a cycle of three last ids.
CycleRecords == {Pool(ID_A, NoToken), Pool(ID_B, NoToken), Pool(ID_C, NoToken)}

\* Pages the cycling subgraph answers with a body.
MaxCyclePages == 6

CycleBodies ==
  {PoolsBody(None, Some(page)) : page \in FullPages(CycleRecords)}
    \cup {PoolsBody(None, Some(<< >>))}

ID_D == <<"0","x","b","1">>
ID_E == <<"0","x","a","3">>
ID_F == <<"0","x","c","0">>

\* Ids of the pools a subgraph that honours the query may hold.
HonestIds == {ZERO_ADDRESS, ID_A, ID_B, ID_C, ID_D, ID_E, ID_F}

HonestPool(id) == Pool(id, Token(LP_1, SLP, SUSHI_LP))

\* Pages the honest subgraph answers with a body.
MaxHonestPages == 5

\* UTF-16 code units of the characters of the pool ids, in increasing order.
CodeOrder == <<"0", "1", "2", "3", "a", "b", "c", "x">>

CodeOf(c) == CHOOSE k \in 1..Len(CodeOrder) : CodeOrder[k] = c

\* s < t as JavaScript compares strings.
StringLess(s, t) ==
  \E k \in 1..Len(t) :
    /\ \A m \in 1..(k - 1) : m <= Len(s) /\ s[m] = t[m]
    /\ k > Len(s) \/ CodeOf(s[k]) < CodeOf(t[k])

\* orderBy: id, orderDirection: asc
RECURSIVE Ascending(_)
Ascending(pools) ==
  IF pools = {} THEN << >>
  ELSE LET least == CHOOSE p \in pools : \A q \in pools \ {p} : StringLess(p.id, q.id)
       IN  <<least>> \o Ascending(pools \ {least})

\* where: { id_gt: $lastId }
IdGt(pools, cursor) == {p \in pools : StringLess(cursor, p.id)}

\* first: 1000
FirstOf(s, n) == SubSeq(s, 1, IF Len(s) < n THEN Len(s) ELSE n)

\* The page a subgraph holding pools answers the query of line 90-112 with.
HonestPage(pools, cursor) == FirstOf(Ascending(IdGt(pools, cursor)), PageSize)

\* The cursor of the request the subgraph is answering.
AskedCursor(i) ==
  IF requests[i] = << >> THEN ZERO_ADDRESS ELSE requests[i][Len(requests[i])].lastId

-----------------------------------------------------------------------------
(* Specifications *)

InitCalls ==
  /\ pc = [i \in Procs |-> "idle"]
  /\ chainId = [i \in Procs |-> << >>]
  /\ apiKey = [i \in Procs |-> << >>]
  /\ chainIdNum = [i \in Procs |-> 0]
  /\ subgraphUrl = [i \in Procs |-> << >>]
  /\ blockNumber = [i \in Procs |-> None]
  /\ lastId = [i \in Procs |-> << >>]
  /\ prevLastId = [i \in Procs |-> << >>]
  /\ allPools = [i \in Procs |-> << >>]
  /\ timer = [i \in Procs |-> FALSE]
  /\ thrown = [i \in Procs |-> None]
  /\ returned = [i \in Procs |-> None]
  /\ console = [i \in Procs |-> << >>]
  /\ requests = [i \in Procs |-> << >>]
  /\ pages = [i \in Procs |-> << >>]
  /\ metaBlock = [i \in Procs |-> None]
  /\ caller = 1
  /\ inFlight = [i \in Procs |-> 0]
  /\ answers = [i \in Procs |-> << >>]

Init ==
  /\ InitCalls
  /\ indexed = {}
  /\ tChainId = << >>
  /\ tPools = << >>
  /\ tTags = None

\* One invocation, paging against every answer of the subgraph.
Next ==
  \/ returnTags(1, ChainIds, ApiKeys)
  \/ FetchMetaSettled(1)
  \/ MetaJsonSettled(1, MetaBodies)
  \/ FetchPoolsSettled(1, MaxPages)
  \/ PoolsJsonSettled(1, PoolsBodies(Records))

Spec == Init /\ [][Next]_vars

\* One invocation, over every chainId and apiKey argument.
NextValidation ==
  \/ returnTags(1, ValidationChainIds, ValidationApiKeys)
  \/ FetchMetaSettled(1)
  \/ MetaJsonSettled(1, FewMetaBodies)
  \/ FetchPoolsSettled(1, MaxPages)
  \/ PoolsJsonSettled(1, EmptyPageOnly)

SpecValidation == Init /\ [][NextValidation]_vars

\* Two invocations whose steps interleave.
NextConcurrent ==
  \E i \in Procs :
    \/ returnTags(i, FewChainIds, FewApiKeys)
    \/ FetchMetaSettled(i)
    \/ MetaJsonSettled(i, FewMetaBodies)
    \/ FetchPoolsSettled(i, MaxConcurrentPages)
    \/ PoolsJsonSettled(i, {PoolsBody(None, Some(page)) : page \in Pages(FewRecords)})

SpecConcurrent == Init /\ [][NextConcurrent]_vars

InitTransform ==
  /\ InitCalls
  /\ indexed = {}
  /\ tChainId \in {<<"5", "6">>, <<"1", "2", "8", "5">>}
  /\ tPools \in PoolLists
  /\ tTags = None

NextTransform == Transform

\* transformPoolsToTags on its own, over every list of PoolLists.
SpecTransform == InitTransform /\ [][NextTransform]_vars

\* One invocation against a subgraph that answers full pages whatever the cursor.
NextCycling ==
  \/ returnTags(1, FewChainIds, FewApiKeys)
  \/ FetchMetaSettled(1)
  \/ MetaJsonSettled(1, FewMetaBodies)
  \/ FetchPoolsSettled(1, MaxCyclePages)
  \/ PoolsJsonSettled(1, CycleBodies)

SpecCycling == Init /\ [][NextCycling]_vars

InitHonest ==
  /\ InitCalls
  /\ indexed \in SUBSET {HonestPool(id) : id \in HonestIds}
  /\ tChainId = << >>
  /\ tPools = << >>
  /\ tTags = None

\* One invocation against a subgraph that honours the page query.
NextHonest ==
  \/ returnTags(1, FewChainIds, FewApiKeys)
  \/ FetchMetaSettled(1)
  \/ MetaJsonSettled(1, FewMetaBodies)
  \/ FetchPoolsSettled(1, MaxHonestPages)
  \/ PoolsJsonSettled(1, {PoolsBody(None, Some(HonestPage(indexed, AskedCursor(1))))})

SpecHonest == InitHonest /\ [][NextHonest]_vars

-----------------------------------------------------------------------------
(* Vocabulary of the properties *)

\* The validation errors: a bad chain id, a missing API key.
ValidationErrors == {UnsupportedChainId, MissingApiKey}

\* s is empty or white space only.
IsBlank(s) == \A k \in 1..Len(s) : s[k] \in WhiteSpace

\* s is white space, then zeros, then one of the four supported identifiers,
\* then white space.
NamesSupportedChain(s) ==
  \E a \in 0..Len(s), z \in 0..Len(s), b \in 0..Len(s) :
    /\ a + z + b <= Len(s)
    /\ \A k \in 1..a : s[k] \in WhiteSpace
    /\ \A k \in (a + 1)..(a + z) : s[k] = "0"
    /\ \A k \in (Len(s) - b + 1)..Len(s) : s[k] \in WhiteSpace
    /\ SubSeq(s, a + z + 1, Len(s) - b) \in ConfiguredChains

RECURSIVE Flatten(_)
Flatten(ps) == IF ps = << >> THEN << >> ELSE Head(ps) \o Flatten(Tail(ps))

IsPoolsRequest(r) == r.query = "pools"

PoolsRequests(i) == SelectSeq(requests[i], IsPoolsRequest)

IsMetaRequest(r) == r.query = "meta"

MetaRequests(i) == SelectSeq(requests[i], IsMetaRequest)

LastIdOf(page) == page[Len(page)].id

\* The cursor the k-th page of invocation i was asked with.
CursorOf(i, k) == PoolsRequests(i)[k].lastId

-----------------------------------------------------------------------------
(* Properties *)

\* C1, as stated: a chainId that is not all decimal digits, or is not literally
\* one of "56", "137", "250", "1285", fails with a validation error and no
\* request is issued.
C1_AsStated ==
  \A i \in Procs :
    (pc[i] # "idle" /\ ~(IsDecimalString(chainId[i]) /\ chainId[i] \in ConfiguredChains))
      => /\ thrown[i] # None
         /\ thrown[i][1] \in ValidationErrors
         /\ requests[i] = << >>

\* C1, amended: a chainId that, with the white space around it removed, is not
\* a decimal string whose value is 56, 137, 250 or 1285 (leading zeros allowed),
\* fails with a validation error and no request is ever issued.
C1_UnsupportedChainRejected ==
  \A i \in Procs :
    (pc[i] # "idle" /\ ~NamesSupportedChain(chainId[i]))
      => /\ pc[i] = "failed"
         /\ thrown[i] # None
         /\ thrown[i][1] \in ValidationErrors
         /\ returned[i] = None
         /\ requests[i] = << >>

C1_Witness ==
  \E i \in Procs :
    /\ pc[i] = "failed"
    /\ chainId[i] = <<"1", "3", "7", "0">>
    /\ apiKey[i] = <<"k", "e", "y">>
    /\ thrown[i] = Some(UnsupportedChainId)
    /\ requests[i] = << >>

\* C2: a blank apiKey with a supported chain id fails with a validation error
\* before the endpoint is resolved and before any request is issued.
C2_BlankApiKeyRejected ==
  \A i \in Procs :
    (pc[i] # "idle" /\ IsBlank(apiKey[i]) /\ NamesSupportedChain(chainId[i]))
      => /\ pc[i] = "failed"
         /\ thrown[i] = Some(MissingApiKey)
         /\ subgraphUrl[i] = << >>
         /\ requests[i] = << >>

C2_Witness ==
  \E i \in Procs :
    /\ pc[i] = "failed"
    /\ chainId[i] = <<"1", "3", "7">>
    /\ apiKey[i] = <<" ", "\t", " ">>
    /\ thrown[i] = Some(MissingApiKey)
    /\ subgraphUrl[i] = << >>

\* The pages received are full with advancing last ids, but for the last one,
\* which is short.
EndsWithShortPage(i) ==
  /\ pages[i] # << >>
  /\ Len(pages[i][Len(pages[i])]) < PageSize
  /\ \A k \in 1..(Len(pages[i]) - 1) :
       /\ Len(pages[i][k]) = PageSize
       /\ StringLess(CursorOf(i, k), LastIdOf(pages[i][k]))

\* C3: when every page but the last is full with advancing last ids and the
\* last page is short, the loop stops right after it, asks for no further page,
\* and the accumulator is the concatenation of the pages in order.
C3_StopsAfterShortPage ==
  \A i \in Procs :
    EndsWithShortPage(i)
      => /\ pc[i] = "done"
         /\ thrown[i] = None
         /\ Len(PoolsRequests(i)) = Len(pages[i])
         /\ allPools[i] = Flatten(pages[i])

C3_Witness ==
  \E i \in Procs :
    /\ EndsWithShortPage(i)
    /\ Len(pages[i]) = 3
    /\ pages[i][3] = << >>
    /\ pc[i] = "done"
    /\ Len(allPools[i]) = 2 * PageSize

\* The k-th page of invocation i is full and its last id is empty, the cursor
\* it was asked with, or the cursor the page before it was asked with.
StallsAt(i, k) ==
  /\ Len(pages[i][k]) = PageSize
  /\ \/ LastIdOf(pages[i][k]) = << >>
     \/ LastIdOf(pages[i][k]) = CursorOf(i, k)
     \/ k > 1 /\ LastIdOf(pages[i][k]) = CursorOf(i, k - 1)

\* C4: a full page whose last id is empty, the cursor it was fetched with or
\* the cursor before that one makes the invocation fail with the stall error;
\* the cursor does not advance and no further page is asked for.
C4_StallAborts ==
  \A i \in Procs :
    \A k \in 1..Len(pages[i]) :
      StallsAt(i, k)
        => /\ pc[i] = "failed"
           /\ thrown[i] = Some(CursorDidNotAdvance)
           /\ Len(pages[i]) = k
           /\ Len(PoolsRequests(i)) = k
           /\ lastId[i] = CursorOf(i, k)

C4_Witness ==
  \E i \in Procs :
    /\ Len(pages[i]) = 3
    /\ StallsAt(i, 3)
    /\ LastIdOf(pages[i][3]) = CursorOf(i, 2)
    /\ LastIdOf(pages[i][3]) # CursorOf(i, 3)
    /\ thrown[i] = Some(CursorDidNotAdvance)

\* C5: an invocation that gets past validation issues the _meta query exactly
\* once, as its first request; no invocation issues it twice; a pools query is
\* issued only after the _meta query was answered, and every pools query
\* carries the block number of that answer.
C5_BlockPinnedOnce ==
  \A i \in Procs :
    /\ Len(MetaRequests(i)) <= 1
    /\ (pc[i] \notin {"idle", "failed"} \/ requests[i] # << >>)
         => Len(MetaRequests(i)) = 1 /\ requests[i][1] = MetaRequest
    /\ PoolsRequests(i) # << >> => metaBlock[i] # None
    /\ \A k \in 1..Len(PoolsRequests(i)) : PoolsRequests(i)[k].block = metaBlock[i]

C5_Witness ==
  \E i \in Procs :
    /\ pc[i] = "done"
    /\ Len(PoolsRequests(i)) = 3
    /\ metaBlock[i] = Some(4211)
    /\ \A k \in 1..3 : PoolsRequests(i)[k].block = Some(4211)

\* C6: an invocation that fails at any step ends with an error and returns no
\* tags, whatever it had accumulated; tags are returned only when no step
\* failed: the block was pinned and the last page received was short.
C6_AllOrNothing ==
  \A i \in Procs :
    /\ pc[i] = "failed" <=> thrown[i] # None
    /\ thrown[i] # None => returned[i] = None
    /\ returned[i] # None
         => /\ pc[i] = "done"
            /\ thrown[i] = None
            /\ metaBlock[i] # None
            /\ pages[i] # << >>
            /\ Len(pages[i][Len(pages[i])]) < PageSize
            /\ Len(PoolsRequests(i)) = Len(pages[i])

C6_Witness ==
  \E i \in Procs :
    /\ pc[i] = "failed"
    /\ thrown[i] = Some(TimedOutPools)
    /\ Len(pages[i]) = 2
    /\ transformPoolsToTags(StringOf(chainIdNum[i]), allPools[i]) # << >>
    /\ returned[i] = None

\* The records of tPools that carry the output-token id.
Carriers(id) ==
  {k \in 1..Len(tPools) :
     tPools[k].outputToken # NoToken /\ tPools[k].outputToken[1].id = id}

\* The output-token ids two or more records of tPools carry.
RepeatedIds ==
  {tPools[k].outputToken[1].id :
     k \in {m \in 1..Len(tPools) : tPools[m].outputToken # NoToken}}
    \cap {id \in TokenIds : Cardinality(Carriers(id)) >= 2}

First(S) == CHOOSE k \in S : \A m \in S : k <= m

\* The tags of tTags for the output-token id.
TagsFor(id) ==
  {j \in 1..Len(tTags[1]) :
     tTags[1][j].ContractAddress = EIP155 \o tChainId \o <<":">> \o id}

\* The tag built from the record tPools[k].
TagOf(k) ==
  LET token == tPools[k].outputToken[1]
  IN  ContractTag(tChainId, token.id, Trim(token.symbol), Trim(token.name))

\* C7, as stated: for an output-token id (a non-empty one) that two or more
\* records carry, the transformer emits exactly one tag, built from the first
\* record carrying it.
C7_AsStated ==
  tTags # None =>
    \A id \in RepeatedIds \ {<< >>} :
      /\ Cardinality(TagsFor(id)) = 1
      /\ \A j \in TagsFor(id) : tTags[1][j] = TagOf(First(Carriers(id)))

\* C7, amended: for a non-empty output-token id that two or more records
\* carry, the transformer emits exactly one tag, built from the first record
\* carrying it, when the trimmed symbol of that first record is not empty, and
\* no tag for that id otherwise.
C7_FirstOccurrenceDecides ==
  tTags # None =>
    \A id \in RepeatedIds \ {<< >>} :
      LET first == First(Carriers(id))
      IN  IF IsBlank(tPools[first].outputToken[1].symbol)
          THEN TagsFor(id) = {}
          ELSE /\ Cardinality(TagsFor(id)) = 1
               /\ \A j \in TagsFor(id) : tTags[1][j] = TagOf(first)

C7_Witness ==
  /\ tTags # None
  /\ Len(tPools) = 3
  /\ Carriers(LP_1) = {1, 2, 3}
  /\ tPools[1].outputToken[1].symbol = WETH_USDC
  /\ tPools[2].outputToken[1].symbol = SLP
  /\ Len(tTags[1]) = 1
  /\ tTags[1][1] = TagOf(1)

\* C8: no two tags of one returned collection have the same Contract Address,
\* and no output-token id has more than one tag.
C8_UniqueContractAddress ==
  tTags # None =>
    /\ \A j, k \in 1..Len(tTags[1]) :
         j # k => tTags[1][j].ContractAddress # tTags[1][k].ContractAddress
    /\ \A id \in TokenIds : Cardinality(TagsFor(id)) <= 1

C8_Witness ==
  /\ tTags # None
  /\ Len(tPools) = 3
  /\ tPools[1] = tPools[3]
  /\ Len(tTags[1]) = 2
  /\ tTags[1][1].ContractAddress # tTags[1][2].ContractAddress

\* The records of tPools a tag is pushed for: the first carrier of a non-empty
\* output-token id, with a symbol that is not blank.
Tagged ==
  {k \in 1..Len(tPools) :
     /\ tPools[k].outputToken # NoToken
     /\ tPools[k].outputToken[1].id # << >>
     /\ k = First(Carriers(tPools[k].outputToken[1].id))
     /\ ~IsBlank(tPools[k].outputToken[1].symbol)}

\* The Public Name Tag of the tag pushed for tPools[k].
LabelOf(k) ==
  LET j == CHOOSE j \in TagsFor(tPools[k].outputToken[1].id) : TRUE
  IN  tTags[1][j].PublicNameTag

\* C9: for a trimmed symbol that is not empty, the Public Name Tag is 45
\* characters long and ends with "..." when len(symbol) + 5 > 45, and is
\* "<symbol> Pool" otherwise; it is never longer than 45.
C9_TruncationLaw ==
  tTags # None =>
    \A k \in Tagged :
      LET symbol == Trim(tPools[k].outputToken[1].symbol)
          label  == LabelOf(k)
      IN  /\ TagsFor(tPools[k].outputToken[1].id) # {}
          /\ Len(label) <= 45
          /\ IF Len(symbol) + 5 > 45
             THEN /\ Len(label) = 45
                  /\ SubSeq(label, 43, 45) = <<".", ".", ".">>
                  /\ SubSeq(label, 1, 42) = SubSeq(symbol \o <<" ", "P">>, 1, 42)
             ELSE label = symbol \o <<" ", "P", "o", "o", "l">>

C9_Witness ==
  /\ tTags # None
  /\ Len(tPools) = 1
  /\ 1 \in Tagged
  /\ Len(Trim(tPools[1].outputToken[1].symbol)) = 41
  /\ Len(LabelOf(1)) = 45
  /\ SubSeq(LabelOf(1), 43, 45) = <<".", ".", ".">>

\* What invocation j holds: its bindings and the state of its promise.
Private(j) ==
  <<chainIdNum[j], subgraphUrl[j], blockNumber[j], lastId[j], prevLastId[j], allPools[j],
    pc[j], thrown[j], returned[j], timer[j]>>

\* What invocation i holds follows from its own arguments and the answers it
\* received itself.
RunsAsAlone(i) ==
  /\ pc[i] \in {"pools fetch", "pools json", "done"}
       => /\ blockNumber[i] = metaBlock[i]
          /\ allPools[i] = Flatten(pages[i])
          /\ lastId[i] = CursorOf(i, Len(PoolsRequests(i)))
          /\ prevLastId[i] = IF Len(PoolsRequests(i)) = 1 THEN << >>
                             ELSE CursorOf(i, Len(PoolsRequests(i)) - 1)
  /\ pc[i] = "done"
       => returned[i] = Some(transformPoolsToTags(StringOf(NumberOf(Trim(chainId[i]))),
                                                  Flatten(pages[i])))
  /\ thrown[i] = Some(CursorDidNotAdvance)
       <=> pages[i] # << >> /\ StallsAt(i, Len(pages[i]))
  /\ thrown[i] = Some(UnsupportedChainId) <=> pc[i] # "idle" /\ ~NamesSupportedChain(chainId[i])

\* C10: two invocations whose steps interleave do not interfere: a step of one
\* changes nothing the other holds, and each one's cursor, previous cursor,
\* accumulator and result are those its own arguments and answers determine.
C10_NoInterference ==
  /\ [][\A j \in Procs : j # caller' => Private(j)' = Private(j)]_vars
  /\ [](\A i \in Procs : RunsAsAlone(i))

C10_Witness ==
  /\ pc[1] = "pools fetch"
  /\ pc[2] = "pools json"
  /\ Len(pages[1]) = 1
  /\ Len(pages[2]) = 1
  /\ allPools[1] # allPools[2]
  /\ lastId[1] # lastId[2]
  /\ blockNumber[1] # blockNumber[2]
  /\ chainIdNum[1] # chainIdNum[2]

\* C11, as stated: each cursor the driver advances to is strictly greater, in
\* string order, than the cursor it replaces.
C11_AsStated ==
  \A i \in Procs :
    \A k \in 2..Len(PoolsRequests(i)) :
      StringLess(CursorOf(i, k - 1), CursorOf(i, k))

\* C11, amended: each cursor the driver advances to is the last id of the full
\* page just received, is not empty, and differs from the cursor it replaces
\* and from the cursor before that one; it need not be greater than either.
C11_CursorDiffersFromLastTwo ==
  \A i \in Procs :
    \A k \in 2..Len(PoolsRequests(i)) :
      /\ Len(pages[i][k - 1]) = PageSize
      /\ CursorOf(i, k) = LastIdOf(pages[i][k - 1])
      /\ CursorOf(i, k) # << >>
      /\ CursorOf(i, k) # CursorOf(i, k - 1)
      /\ k > 2 => CursorOf(i, k) # CursorOf(i, k - 2)

C11_Witness ==
  \E i \in Procs :
    /\ Len(PoolsRequests(i)) = 3
    /\ CursorOf(i, 2) = ID_B
    /\ CursorOf(i, 3) = ID_A
    /\ pc[i] = "pools fetch"

\* The k-th and the m-th page request of invocation i leave the loop in the
\* same state: the same cursor and the same previous cursor.
SameLoopState(i, k, m) ==
  /\ CursorOf(i, k) = CursorOf(i, m)
  /\ CursorOf(i, k - 1) = CursorOf(i, m - 1)

\* C12, as stated: whatever the source answers, the loop never runs forever;
\* so it is never back in a state (cursor, previous cursor) it was in before,
\* from where a source that answers by the cursor alone keeps it going round.
C12_AsStated ==
  \A i \in Procs :
    \A k, m \in 2..Len(PoolsRequests(i)) :
      k < m => ~SameLoopState(i, k, m)

\* The k-th page of invocation i ends the loop: it is short, or it is full and
\* its last id is empty or one of the two latest cursors.
EndsLoop(i, k) ==
  \/ Len(pages[i][k]) # PageSize
  \/ LastIdOf(pages[i][k]) = << >>
  \/ LastIdOf(pages[i][k]) = CursorOf(i, k)
  \/ k > 1 /\ LastIdOf(pages[i][k]) = CursorOf(i, k - 1)

\* C12, amended: the loop stops, returning or failing with the stall error,
\* right after the first page that is short or whose last id is empty or one
\* of the two latest cursors; after any other page it asks for the next page,
\* so a source whose full pages cycle through three last ids keeps it running.
C12_StopsOnlyOnShortPageOrTwoStepRepeat ==
  \A i \in Procs :
    \A k \in 1..Len(pages[i]) :
      IF EndsLoop(i, k)
      THEN /\ k = Len(pages[i])
           /\ Len(PoolsRequests(i)) = k
           /\ pc[i] \in {"done", "failed"}
           /\ pc[i] = "failed" => thrown[i] = Some(CursorDidNotAdvance)
      ELSE /\ Len(PoolsRequests(i)) > k
           /\ CursorOf(i, k + 1) = LastIdOf(pages[i][k])

C12_Witness ==
  \E i \in Procs :
    /\ Len(PoolsRequests(i)) = 6
    /\ SameLoopState(i, 3, 6)
    /\ pc[i] = "pools fetch"
    /\ thrown[i] = None

\* The pools of the subgraph whose id is greater than the all-zero sentinel.
AboveSentinel == IdGt(indexed, ZERO_ADDRESS)

\* C13: against a subgraph that answers each page query with the PageSize
\* smallest ids above the cursor in ascending order, the accumulator of a
\* finished invocation holds every pool above the sentinel exactly once, in
\* ascending order of id, also when their number is a multiple of the page
\* size; the stall check never fires.
C13_HonestSourceCollectedOnce ==
  \A i \in Procs :
    /\ pc[i] = "done" =>
         /\ allPools[i] = Ascending(AboveSentinel)
         /\ Len(allPools[i]) = Cardinality(AboveSentinel)
         /\ \A p \in AboveSentinel : Cardinality({k \in 1..Len(allPools[i]) : allPools[i][k] = p}) = 1
         /\ \A k \in 1..(Len(allPools[i]) - 1) : StringLess(allPools[i][k].id, allPools[i][k + 1].id)
         /\ Len(pages[i]) = (Cardinality(AboveSentinel) \div PageSize) + 1
    /\ thrown[i] # Some(CursorDidNotAdvance)

C13_Witness ==
  \E i \in Procs :
    /\ pc[i] = "done"
    /\ HonestPool(ZERO_ADDRESS) \in indexed
    /\ Cardinality(AboveSentinel) = 2 * PageSize
    /\ Len(pages[i]) = 3
    /\ pages[i][3] = << >>
    /\ Len(allPools[i]) = 2 * PageSize

\* The states in which invocation i waits for a fetch or a response.json().
Awaiting(i) == pc[i] \in {"meta fetch", "meta json", "pools fetch", "pools json"}

\* C14: an invocation has at most one request in flight; the request for page
\* k + 1 is issued only once page k is received and appended and its last id
\* is the cursor, and it carries that cursor.
C14_OneRequestAtATime ==
  \A i \in Procs :
    /\ inFlight[i] \in {0, 1}
    /\ inFlight[i] = 1 <=> Awaiting(i)
    /\ Len(PoolsRequests(i)) <= Len(pages[i]) + 1
    /\ Len(requests[i]) <= Len(MetaRequests(i)) + Len(pages[i]) + 1
    /\ \A k \in 2..Len(PoolsRequests(i)) :
         /\ Len(pages[i][k - 1]) = PageSize
         /\ CursorOf(i, k) = LastIdOf(pages[i][k - 1])
    /\ Len(PoolsRequests(i)) = Len(pages[i]) + 1 =>
         /\ lastId[i] = CursorOf(i, Len(PoolsRequests(i)))
         /\ allPools[i] = Flatten(pages[i])

C14_Witness ==
  \E i \in Procs :
    /\ pc[i] = "pools fetch"
    /\ inFlight[i] = 1
    /\ Len(PoolsRequests(i)) = 3
    /\ Len(pages[i]) = 2
    /\ lastId[i] = ID_C
    /\ CursorOf(i, 3) = ID_C

\* The error a settled fetch or response.json() makes its call fail with, None
\* when the call goes on.
FailureOf(a) ==
  CASE a.stage = "fetch" /\ a.kind = "abort" ->
         Some(IF a.call = "meta" THEN TimedOutMeta ELSE TimedOutPools)
    [] a.stage = "fetch" /\ a.kind = "not ok" ->
         Some(IF a.call = "meta" THEN HttpErrorMeta ELSE HttpErrorPools)
    [] a.stage = "fetch" /\ a.kind = "reject" -> Some(FetchRejected)
    [] a.stage = "json" /\ a.kind = "abort" -> Some(TimedOutMeta)
    [] a.stage = "json" /\ a.kind = "reject" -> Some(BodyRejected)
    [] a.stage = "json" /\ a.kind = "json" /\ a.call = "meta" ->
         IF a.body[1].number = None THEN Some(MetaBlockUnreadable) ELSE None
    [] a.stage = "json" /\ a.kind = "json" /\ a.call = "pools" ->
         IF a.body[1].errors # None THEN Some(GraphQLErrorPools) ELSE None
    [] OTHER -> None

FetchAnswers(i) == {k \in 1..Len(answers[i]) : answers[i][k].stage = "fetch"}

\* A failed call, or a failed stall check, is the last thing invocation i did:
\* every request was answered, none followed, and the caller has that error.
FailedOnce(i) ==
  /\ \A k \in 1..Len(answers[i]) :
       FailureOf(answers[i][k]) # None
         => /\ k = Len(answers[i])
            /\ pc[i] = "failed"
            /\ thrown[i] = FailureOf(answers[i][k])
            /\ returned[i] = None
            /\ inFlight[i] = 0
            /\ Len(requests[i]) = Cardinality(FetchAnswers(i))
  /\ (pages[i] # << >> /\ StallsAt(i, Len(pages[i])))
       => /\ pc[i] = "failed"
          /\ thrown[i] = Some(CursorDidNotAdvance)
          /\ inFlight[i] = 0
          /\ Len(requests[i]) = Cardinality(FetchAnswers(i))

\* C15: no retries. A failed network call or a failed stall check ends the
\* invocation with that very error; once failed, it issues no request, gets
\* no answer, and its error never changes.
C15_NoRetry ==
  /\ [](\A i \in Procs : FailedOnce(i))
  /\ [][\A i \in Procs :
          pc[i] = "failed" => /\ pc'[i] = "failed"
                              /\ requests'[i] = requests[i]
                              /\ answers'[i] = answers[i]
                              /\ inFlight'[i] = 0
                              /\ thrown'[i] = thrown[i]]_vars

C15_Witness ==
  \E i \in Procs :
    /\ pc[i] = "failed"
    /\ Len(pages[i]) = 1
    /\ Len(answers[i]) = 5
    /\ answers[i][5] = Answer("pools", "fetch", "not ok", None)
    /\ thrown[i] = Some(HttpErrorPools)
    /\ Len(requests[i]) = 3

\* The bodies of the page responses invocation i has parsed, in order.
IsParsedPage(a) == a.call = "pools" /\ a.stage = "json" /\ a.kind = "json"

ParsedPages(i) == SelectSeq(answers[i], IsParsedPage)

\* The last thing invocation i received is a page response with an errors field.
LastCarriesErrors(i) ==
  /\ answers[i] # << >>
  /\ IsParsedPage(answers[i][Len(answers[i])])
  /\ answers[i][Len(answers[i])].body[1].errors # None

\* C16: a page response with an errors field makes the invocation fail with
\* the GraphQL error; each message of the response is on the error log, in
\* order; and no record of that response reaches the accumulator, whether or
\* not the response has a data field.
C16_ErrorsResponseRejected ==
  \A i \in Procs :
    IF LastCarriesErrors(i)
    THEN LET body == answers[i][Len(answers[i])].body[1]
             msgs == body.errors[1]
         IN  /\ pc[i] = "failed"
             /\ thrown[i] = Some(GraphQLErrorPools)
             /\ returned[i] = None
             /\ Len(console[i]) = Len(msgs)
             /\ \A k \in 1..Len(msgs) : console[i][k] = <<LOG_PREFIX, msgs[k]>>
             /\ Len(pages[i]) = Len(ParsedPages(i)) - 1
             /\ allPools[i] = Flatten(pages[i])
    ELSE console[i] = << >>

C16_Witness ==
  \E i \in Procs :
    /\ LastCarriesErrors(i)
    /\ answers[i][Len(answers[i])].body[1].data = Some(<<Pool(ID_A, NoToken)>>)
    /\ Len(console[i]) = 2
    /\ Len(pages[i]) = 1
    /\ Len(allPools[i]) = PageSize
    /\ pc[i] = "failed"

\* The last thing invocation i received is a page response with neither an
\* errors field nor a data field.
LastIsBare(i) ==
  /\ answers[i] # << >>
  /\ IsParsedPage(answers[i][Len(answers[i])])
  /\ answers[i][Len(answers[i])].body[1] = PoolsBody(None, None)

\* C17: a page response with neither errors nor data counts as a page of no
\* records: nothing is appended, nothing is thrown or logged, no further page
\* is asked for, and the invocation returns the tags of the records of the
\* earlier pages.
C17_BareResponseIsEmptyPage ==
  \A i \in Procs :
    LastIsBare(i)
      => LET n       == Len(pages[i])
             earlier == Flatten(SubSeq(pages[i], 1, n - 1))
         IN  /\ n = Len(ParsedPages(i))
             /\ pages[i][n] = << >>
             /\ allPools[i] = earlier
             /\ pc[i] = "done"
             /\ thrown[i] = None
             /\ console[i] = << >>
             /\ Len(PoolsRequests(i)) = n
             /\ returned[i] = Some(transformPoolsToTags(StringOf(chainIdNum[i]), earlier))

C17_Witness ==
  \E i \in Procs :
    /\ LastIsBare(i)
    /\ Len(pages[i]) = 3
    /\ Len(allPools[i]) = 2 * PageSize
    /\ pc[i] = "done"
    /\ returned[i] # None
    /\ returned[i][1] # << >>

\* The last thing invocation i received is a parsed _meta response.
LastIsMetaBody(i) ==
  /\ answers[i] # << >>
  /\ answers[i][Len(answers[i])].call = "meta"
  /\ answers[i][Len(answers[i])].stage = "json"
  /\ answers[i][Len(answers[i])].kind = "json"

\* C18, as stated: the block number pinned is a positive integer; a _meta
\* response whose block number is absent, no number, zero or negative fails
\* with the schema error and no page query is issued with it.
C18_AsStated ==
  \A i \in Procs :
    /\ blockNumber[i] # None => blockNumber[i][1] > 0
    /\ \A k \in 1..Len(PoolsRequests(i)) : PoolsRequests(i)[k].block[1] > 0
    /\ LastIsMetaBody(i) =>
         LET number == answers[i][Len(answers[i])].body[1].number
         IN  (number = None \/ number[1] <= 0)
               => /\ pc[i] = "failed"
                  /\ thrown[i] = Some(MetaBlockUnreadable)
                  /\ PoolsRequests(i) = << >>

\* C19, as stated: while a fetch or a response.json() of a call is pending,
\* the timer of that call is armed, so that its firing aborts the call.
C19_AsStated ==
  \A i \in Procs : Awaiting(i) => timer[i]

\* C20, as stated: with a chainId naming a supported chain and an apiKey that
\* is not blank, returnTags does not fail with the configuration error and
\* issues the _meta query.
C20_AsStated ==
  \A i \in Procs :
    (pc[i] # "idle" /\ NamesSupportedChain(chainId[i]) /\ ~IsBlank(apiKey[i]))
      => /\ thrown[i] # Some(SubgraphUrlNotConfigured)
         /\ requests[i] # << >>
         /\ requests[i][1] = MetaRequest
=============================================================================
